---- MODULE Spec2Model ----
(***************************************************************************)
(* Model of wojnosystems/go_session_store: the random identifier generator *)
(* (randomSource.Generate), the SessionStorer contract, and the collision  *)
(* retry loop of New, run by several concurrent callers against one store. *)
(***************************************************************************)
EXTENDS Integers, Sequences, FiniteSets, TLC

\* ---------------------------------------------------------------- bounds
NumProcs == 2          \* concurrent invocations of New
MaxAttempts == 2       \* largest maxGenerateAttempts a caller passes
MaxBytes == 1          \* largest configured identifier length
MaxGenBytes == 3       \* largest configured length explored by SpecGen
MaxByte == 1           \* bytes are 0..MaxByte
MaxGenCalls == 3       \* direct Generate calls explored by SpecGen

Procs == 1..NumProcs
Bytes == 0..MaxByte
\* the <<userId, metaData>> pairs callers pass: both empty, both set, and
\* a metaData without a userId
ArgPairs == {<<"", "">>, <<"u", "m">>, <<"", "m">>}
AttemptBudgets == (-1)..MaxAttempts

\* ---------------------------------------------------------------- errors
Nil == "nil"
ErrSessionCollision == "ErrSessionCollision"
ErrStorage == "ErrStorage"              \* some other error of the storer
\* an error value that wraps the collision but is not the shared value itself
ErrWrappedCollision == "fmt.Errorf(%w, ErrSessionCollision)"
ErrCanceled == "context.Canceled"        \* ctx.Err() of a cancelled context
ErrEOF == "io.EOF"                      \* an error of the byte source
ReaderErrors == {Nil, ErrEOF}

EmptyBytes == << >>

\* the contexts a GenerateAndStore call can be handed: the ctx parameter of
\* New, or a context of its own making that is never cancelled
CallerCtx == "ctx"
BackgroundCtx == "context.Background()"

VARIABLES
    bytes,      \* randomSource.bytes, fixed by NewRandomSource
    store,      \* the storer's session records
    pc,         \* position of each invocation of New
    userId, metaData, maxGenerateAttempts,   \* arguments of each invocation
    i,          \* loop counter of each invocation
    session, err,   \* named results of New, assigned by each attempt
    ret,        \* what the invocation returned to its caller
    cancelled,  \* whether the ctx of each running invocation is cancelled
    cancelAt,   \* how many calls the invocation had made when that happened
    recv,       \* the storer's log of the arguments each invocation passed it
    hist,       \* the storer's log of the errors it answered each invocation
    answer,     \* the storer's last answer to each invocation: <<session, err>>
    genRead,    \* SpecGen: outcome of the last reader.Read
    genOut,     \* SpecGen: result of the last direct Generate call
    genCalls    \* SpecGen: number of direct Generate calls

newVars == <<pc, userId, metaData, maxGenerateAttempts, i, session, err, ret>>
genVars == <<genRead, genOut, genCalls>>
vars == <<bytes, store, newVars, cancelled, cancelAt, recv, hist, answer, genVars>>

\* ------------------------------------------------------- byte source
\* Outcomes of reader.Read(b) for len(b) = n: the count of bytes written,
\* the bytes written, and the error.
ReadOutcomes(n) ==
    { [n |-> k, data |-> d, err |-> e] :
        k \in 0..n, d \in UNION { [1..j -> Bytes] : j \in 0..n }, e \in ReaderErrors }

ValidRead(n, rd) == Len(rd.data) = rd.n /\ rd.n <= n

\* make([]byte, r.bytes): a zeroed buffer
MakeBuffer(n) == [j \in 1..n |-> 0]

\* the buffer after Read wrote rd.data at its front
Fill_Truncate(b, rd) == [j \in 1..rd.n |-> rd.data[j]]
Fill(b, rd) == [j \in 1..Len(b) |-> IF j <= rd.n THEN rd.data[j] ELSE b[j]]

\* randomSource.Generate: the count returned by Read is dropped
Generate_SwallowOnFull(n, rd) ==
    <<Fill(MakeBuffer(n), rd), IF rd.n = n THEN Nil ELSE rd.err>>
Generate(n, rd) == <<Fill(MakeBuffer(n), rd), rd.err>>

\* ------------------------------------------------------- storer
Ids(st) == { r.id : r \in st }

\* SessionStorer.Get of a store holding st
Get(st, id) ==
    IF id \in Ids(st)
    THEN LET r == CHOOSE r \in st : r.id = id IN <<r.userId, r.metaData, Nil>>
    ELSE <<"", "", Nil>>

\* what New passes to GenerateAndStore
StoreArgs_DropMeta(c, u, m) == <<c, u, "">>
StoreArgs_Swapped(c, u, m) == <<c, m, u>>
StoreArgs_Background(c, u, m) == <<BackgroundCtx, u, m>>
StoreArgs(c, u, m) == <<c, u, m>>

\* ------------------------------------------------------- New
LoopCond_OffByOne(k, max) == k < max - 1
LoopCond_Inclusive(k, max) == k <= max
LoopCond(k, max) == k < max

\* whether New goes on to another attempt: the loop header reads only i and
\* maxGenerateAttempts, never ctx.Done() or ctx.Err()
Continue_CtxAware(isCancelled, k, max) == ~isCancelled /\ LoopCond(k, max)
Continue(isCancelled, k, max) == LoopCond(k, max)

IsCollision_ErrorsIs(e) == e \in {ErrSessionCollision, ErrWrappedCollision}
IsCollision_AnyError(e) == e # Nil
IsCollision_Inverted(e) == e # ErrSessionCollision
IsCollision(e) == e = ErrSessionCollision

ReturnValue_DropErr(s, e) == <<s, Nil>>
ReturnValue(s, e) == <<s, e>>

ExhaustedReturn_Last(s, e) == <<s, e>>
ExhaustedReturn(s, e) == <<EmptyBytes, ErrSessionCollision>>

TypeOK ==
    /\ bytes \in 0..(IF MaxBytes > MaxGenBytes THEN MaxBytes ELSE MaxGenBytes)
    /\ pc \in [Procs -> {"idle", "loop", "done"}]
    /\ i \in [Procs -> 0..(MaxAttempts + 1)]

Init ==
    /\ bytes \in 0..MaxBytes
    /\ store = {}
    /\ pc = [p \in Procs |-> "idle"]
    /\ userId = [p \in Procs |-> ""]
    /\ metaData = [p \in Procs |-> ""]
    /\ maxGenerateAttempts = [p \in Procs |-> 0]
    /\ i = [p \in Procs |-> 0]
    /\ session = [p \in Procs |-> EmptyBytes]
    /\ err = [p \in Procs |-> Nil]
    /\ ret = [p \in Procs |-> <<EmptyBytes, Nil>>]
    /\ cancelled = [p \in Procs |-> FALSE]
    /\ cancelAt = [p \in Procs |-> 0]
    /\ recv = [p \in Procs |-> {}]
    /\ hist = [p \in Procs |-> << >>]
    /\ answer = [p \in Procs |-> <<EmptyBytes, Nil>>]
    /\ genRead = [n |-> 0, data |-> << >>, err |-> Nil]
    /\ genOut = <<EmptyBytes, Nil>>
    /\ genCalls = 0

\* A caller invokes New(ctx, storer, u, m, max): i := 0
NewEnter(p) ==
    /\ pc[p] = "idle"
    /\ \E a \in ArgPairs, max \in AttemptBudgets :
        /\ userId' = [userId EXCEPT ![p] = a[1]]
        /\ metaData' = [metaData EXCEPT ![p] = a[2]]
        /\ maxGenerateAttempts' = [maxGenerateAttempts EXCEPT ![p] = max]
    /\ i' = [i EXCEPT ![p] = 0]
    /\ pc' = [pc EXCEPT ![p] = "loop"]
    /\ UNCHANGED <<bytes, store, session, err, ret, cancelled, cancelAt, recv, hist, answer, genVars>>

\* The answer of storer.GenerateAndStore(ctx, u, m) and the store it leaves:
\* an atomic create-if-absent on an identifier drawn from the generator.
\* The storer either works ("plain"), fails for a reason of its own ("fail"),
\* reports an existing identifier with an error that wraps the collision
\* instead of the shared value ("wrap"), or honours its context and answers
\* ctx.Err() when the context it was handed is cancelled ("honour").
\* On a failure it returns either no bytes or the candidate (echo).
StorerModes == {"plain", "fail", "wrap", "honour"}

CtxDone(p, c) == c = CallerCtx /\ cancelled[p]

GenerateAndStore(p, c, u, m, rd, mode, echo) ==
    LET g == Generate(bytes, rd)
        cand == g[1]
        onErr == IF echo THEN cand ELSE EmptyBytes
    IN  IF mode = "honour" /\ CtxDone(p, c)
        THEN [out |-> <<EmptyBytes, ErrCanceled>>, st |-> store]
        ELSE IF g[2] # Nil THEN [out |-> <<onErr, g[2]>>, st |-> store]
        ELSE IF mode = "fail" THEN [out |-> <<onErr, ErrStorage>>, st |-> store]
        ELSE IF cand \in Ids(store)
             THEN [out |-> <<onErr, IF mode = "wrap" THEN ErrWrappedCollision
                                                      ELSE ErrSessionCollision>>,
                   st |-> store]
        ELSE [out |-> <<cand, Nil>>,
              st |-> store \cup {[id |-> cand, userId |-> u, metaData |-> m, owner |-> p]}]

\* every answer the storer can give to one call, over what the byte source
\* reads and how the storer behaves
StorerAnswers(p, a) ==
    { GenerateAndStore(p, a[1], a[2], a[3], rd, mode, echo) :
        rd \in { x \in ReadOutcomes(bytes) : ValidRead(bytes, x) },
        mode \in StorerModes, echo \in BOOLEAN }

\* New returns r to its caller. The locals and the ctx of the invocation end
\* with it; the caller keeps what it asked for only with the session it got.
Return(p, r) ==
    /\ ret' = [ret EXCEPT ![p] = r]
    /\ pc' = [pc EXCEPT ![p] = "done"]
    /\ session' = [session EXCEPT ![p] = EmptyBytes]
    /\ err' = [err EXCEPT ![p] = Nil]
    /\ i' = [i EXCEPT ![p] = 0]
    /\ cancelled' = [cancelled EXCEPT ![p] = FALSE]
    /\ cancelAt' = [cancelAt EXCEPT ![p] = 0]
    /\ IF r[2] = Nil
       THEN UNCHANGED <<userId, metaData>>
       ELSE /\ userId' = [userId EXCEPT ![p] = ""]
            /\ metaData' = [metaData EXCEPT ![p] = ""]

\* One iteration of the loop of New:
\*   session, err = storer.GenerateAndStore(ctx, userId, metaData)
\*   if err == ErrSessionCollision { continue }     (i++)
\*   return session, err
NewAttempt(p) ==
    /\ pc[p] = "loop"
    /\ Continue(cancelled[p], i[p], maxGenerateAttempts[p])
    /\ LET a == StoreArgs(CallerCtx, userId[p], metaData[p])
       IN  \E r \in StorerAnswers(p, a) :
               /\ store' = r.st
               /\ hist' = [hist EXCEPT ![p] = Append(@, r.out[2])]
               /\ answer' = [answer EXCEPT ![p] = r.out]
               /\ IF IsCollision(r.out[2])
                  THEN /\ session' = [session EXCEPT ![p] = r.out[1]]
                       /\ err' = [err EXCEPT ![p] = r.out[2]]
                       /\ i' = [i EXCEPT ![p] = @ + 1]
                       /\ recv' = [recv EXCEPT ![p] = @ \cup {a}]
                       /\ UNCHANGED <<pc, ret, cancelled, cancelAt, userId, metaData>>
                  ELSE /\ Return(p, ReturnValue(r.out[1], r.out[2]))
                       /\ recv' = [recv EXCEPT ![p] =
                                     IF ReturnValue(r.out[1], r.out[2])[2] = Nil
                                     THEN @ \cup {a} ELSE {}]
    /\ UNCHANGED <<bytes, maxGenerateAttempts, genVars>>

\* return []byte{}, ErrSessionCollision
NewExhausted(p) ==
    /\ pc[p] = "loop"
    /\ ~Continue(cancelled[p], i[p], maxGenerateAttempts[p])
    /\ Return(p, ExhaustedReturn(session[p], err[p]))
    /\ recv' = [recv EXCEPT ![p] =
                  IF ExhaustedReturn(session[p], err[p])[2] = Nil THEN @ ELSE {}]
    /\ UNCHANGED <<bytes, store, maxGenerateAttempts, hist, answer, genVars>>

\* The caller (or a deadline) cancels the ctx of a running invocation
Cancel(p) ==
    /\ pc[p] = "loop"
    /\ ~cancelled[p]
    /\ cancelled' = [cancelled EXCEPT ![p] = TRUE]
    /\ cancelAt' = [cancelAt EXCEPT ![p] = Len(hist[p])]
    /\ UNCHANGED <<bytes, store, newVars, recv, hist, answer, genVars>>

Next ==
    \/ \E p \in Procs : NewEnter(p)
    \/ \E p \in Procs : Cancel(p)
    \/ \E p \in Procs : NewAttempt(p)
    \/ \E p \in Procs : NewExhausted(p)

Spec == Init /\ [][Next]_vars

\* ------------------------------------------------------- generator alone
\* A caller invokes Generate() on the configured generator
GenerateCall ==
    /\ genCalls < MaxGenCalls
    /\ \E rd \in ReadOutcomes(bytes) :
        /\ ValidRead(bytes, rd)
        /\ genRead' = rd
        /\ genOut' = Generate(bytes, rd)
    /\ genCalls' = genCalls + 1
    /\ UNCHANGED <<bytes, store, newVars, cancelled, cancelAt, recv, hist, answer>>

NextGen == GenerateCall

InitGen ==
    /\ bytes \in 0..MaxGenBytes
    /\ store = {}
    /\ pc = [p \in Procs |-> "idle"]
    /\ userId = [p \in Procs |-> ""]
    /\ metaData = [p \in Procs |-> ""]
    /\ maxGenerateAttempts = [p \in Procs |-> 0]
    /\ i = [p \in Procs |-> 0]
    /\ session = [p \in Procs |-> EmptyBytes]
    /\ err = [p \in Procs |-> Nil]
    /\ ret = [p \in Procs |-> <<EmptyBytes, Nil>>]
    /\ cancelled = [p \in Procs |-> FALSE]
    /\ cancelAt = [p \in Procs |-> 0]
    /\ recv = [p \in Procs |-> {}]
    /\ hist = [p \in Procs |-> << >>]
    /\ answer = [p \in Procs |-> <<EmptyBytes, Nil>>]
    /\ genRead = [n |-> 0, data |-> << >>, err |-> Nil]
    /\ genOut = <<EmptyBytes, Nil>>
    /\ genCalls = 0

SpecGen == InitGen /\ [][NextGen]_vars

\* ------------------------------------------------------- properties
\* number of leading collision answers in a log
Lead(h) ==
    IF \E j \in 1..Len(h) : h[j] # ErrSessionCollision
    THEN (CHOOSE j \in 1..Len(h) :
            /\ h[j] # ErrSessionCollision
            /\ \A k \in 1..(j - 1) : h[k] = ErrSessionCollision) - 1
    ELSE Len(h)

Owned(p) == { r \in store : r.owner = p }
AllIds == {EmptyBytes} \cup [1..bytes -> Bytes]

\* C1: an invocation that met K < maxGenerateAttempts collisions made call
\* K+1, and if that call succeeded it made no other call and returned nil
\* error with exactly the identifier that call stored and answered.
C1_RetryThenSuccess ==
    \A p \in Procs :
        pc[p] = "done" =>
            LET K == Lead(hist[p]) IN
            K < maxGenerateAttempts[p] =>
                /\ Len(hist[p]) = K + 1
                /\ hist[p][K + 1] = Nil =>
                    /\ ret[p] = <<answer[p][1], Nil>>
                    /\ { r.id : r \in Owned(p) } = {ret[p][1]}

C1_Witness ==
    \E p \in Procs :
        /\ pc[p] = "done"
        /\ maxGenerateAttempts[p] = MaxAttempts
        /\ Len(hist[p]) = MaxAttempts
        /\ Lead(hist[p]) = MaxAttempts - 1
        /\ hist[p][MaxAttempts] = Nil
        /\ ret[p][2] = Nil

\* C2: an answer that is an error other than the collision is the last
\* call of its invocation, and New returned that error unchanged.
C2_OtherErrorReturned ==
    \A p \in Procs : \A j \in 1..Len(hist[p]) :
        hist[p][j] \notin {Nil, ErrSessionCollision} =>
            /\ j = Len(hist[p])
            /\ pc[p] = "done"
            /\ ret[p][2] = hist[p][j]

C2_Witness ==
    \E p \in Procs :
        /\ pc[p] = "done"
        /\ hist[p] = <<ErrSessionCollision, ErrStorage>>
        /\ ret[p][2] = ErrStorage

\* C3: with maxGenerateAttempts = M >= 1 and only collisions answered, New
\* returns ErrSessionCollision with an empty identifier after exactly M calls.
C3_ExhaustionReportsCollision ==
    \A p \in Procs :
        ( /\ pc[p] = "done"
          /\ maxGenerateAttempts[p] >= 1
          /\ \A j \in 1..Len(hist[p]) : hist[p][j] = ErrSessionCollision )
        => /\ ret[p] = <<EmptyBytes, ErrSessionCollision>>
           /\ Len(hist[p]) = maxGenerateAttempts[p]

C3_Witness ==
    \E p \in Procs :
        /\ pc[p] = "done"
        /\ maxGenerateAttempts[p] = MaxAttempts
        /\ Len(hist[p]) = MaxAttempts
        /\ \A j \in 1..Len(hist[p]) : hist[p][j] = ErrSessionCollision
        /\ answer[p][1] # EmptyBytes

\* C4: with maxGenerateAttempts <= 0 New never calls the storer, creates no
\* record, and returns ErrSessionCollision with an empty identifier.
C4_ZeroBudget ==
    \A p \in Procs :
        (pc[p] # "idle" /\ maxGenerateAttempts[p] <= 0) =>
            /\ hist[p] = << >>
            /\ Owned(p) = {}
            /\ pc[p] = "done" => ret[p] = <<EmptyBytes, ErrSessionCollision>>

C4_Witness ==
    \E p \in Procs :
        /\ pc[p] = "done" /\ maxGenerateAttempts[p] = -1
        /\ ret[p] = <<EmptyBytes, ErrSessionCollision>>
        /\ store # {}

\* C5 (as claimed): New never returns a non-empty identifier together with
\* a non-nil error.
C5_EmptyIdentifierOnError ==
    \A p \in Procs :
        pc[p] = "done" => (ret[p][2] = Nil \/ ret[p][1] = EmptyBytes)

\* C5 (amended): New returns a non-empty identifier together with a non-nil
\* error only when that pair is the unchanged answer of its last
\* GenerateAndStore call and the error is not the collision; on exhaustion
\* the identifier is empty.
C5_ErrorPairIsStorerAnswer ==
    \A p \in Procs :
        pc[p] = "done" =>
            \/ ret[p][2] = Nil
            \/ ret[p][1] = EmptyBytes
            \/ /\ ret[p][2] # ErrSessionCollision
               /\ Len(hist[p]) >= 1
               /\ ret[p] = answer[p]

C5_Witness ==
    \E p \in Procs :
        /\ pc[p] = "done"
        /\ ret[p][1] # EmptyBytes
        /\ ret[p][2] \notin {Nil, ErrSessionCollision}

\* C6: against the atomic create-if-absent store, no two successful
\* invocations returned the same identifier, and no two records of the
\* store share an identifier.
C6_UniqueIdentifiers ==
    /\ \A p, q \in Procs :
        (p # q /\ pc[p] = "done" /\ pc[q] = "done" /\ ret[p][2] = Nil /\ ret[q][2] = Nil)
            => ret[p][1] # ret[q][1]
    /\ \A r1, r2 \in store : r1.id = r2.id => r1 = r2

C6_Witness ==
    \E p, q \in Procs :
        /\ p # q
        /\ pc[p] = "done" /\ ret[p][2] = Nil
        /\ pc[q] = "done" /\ ret[q][2] = Nil
        /\ Lead(hist[q]) >= 1

\* C7: once New(userId, metaData) returned identifier s with nil error,
\* Get(s) answers exactly that userId and metaData with nil error in every
\* later state, whatever other invocations did to the store.
C7_RoundTrip ==
    \A p \in Procs :
        (pc[p] = "done" /\ ret[p][2] = Nil) =>
            Get(store, ret[p][1]) = <<userId[p], metaData[p], Nil>>

\* a later invocation collided on the only identifier in the store
C7_Witness ==
    \E p, q \in Procs :
        /\ p # q
        /\ pc[p] = "done" /\ ret[p][2] = Nil /\ userId[p] = "u"
        /\ Cardinality(store) = 1
        /\ pc[q] = "done" /\ Lead(hist[q]) >= 1 /\ userId[q] # userId[p]
        /\ Get(store, ret[p][1]) = <<"u", "m", Nil>>

\* C8 (as claimed): whenever Get answers an empty userId and an empty
\* metaData with nil error, no record exists for that identifier.
C8_EmptyMeansAbsent ==
    \A id \in AllIds :
        Get(store, id) = <<"", "", Nil>> => id \notin Ids(store)

\* C8 (amended): whenever Get answers an empty userId and an empty metaData
\* with nil error, either no record exists for that identifier or the record
\* was created by a New whose userId and metaData were both empty.
C8_EmptyMeansAbsentOrEmptyArgs ==
    \A id \in AllIds :
        Get(store, id) = <<"", "", Nil>> =>
            \A r \in store :
                r.id = id => (userId[r.owner] = "" /\ metaData[r.owner] = "")

C8_Witness ==
    \E id \in AllIds, p \in Procs :
        /\ id \in Ids(store)
        /\ Get(store, id) = <<"", "", Nil>>
        /\ pc[p] = "done" /\ ret[p] = <<id, Nil>>

\* C9: an invocation that returned a non-nil error created no record.
C9_ErrorMeansNoSession ==
    \A p \in Procs :
        (pc[p] = "done" /\ ret[p][2] # Nil) => Owned(p) = {}

C9_Witness ==
    \E p \in Procs :
        /\ pc[p] = "done" /\ ret[p][2] = ErrSessionCollision
        /\ Len(hist[p]) = MaxAttempts
        /\ store # {}

\* C10: a Generate call whose Read filled fewer bytes than the configured
\* length reports failure.
C10_ShortReadFails ==
    (genCalls > 0 /\ genRead.n < bytes) => genOut[2] # Nil

\* C11: every Generate call that returns nil error returns exactly as many
\* bytes as the generator was configured with, and no call changes the
\* configured length.
C11_LengthInvariant ==
    /\ []((genCalls > 0 /\ genOut[2] = Nil) => Len(genOut[1]) = bytes)
    /\ [][bytes' = bytes]_vars

\* a later call of a sequence, after a short read, still has the full length
C11_Witness ==
    /\ genCalls = MaxGenCalls
    /\ bytes = MaxGenBytes
    /\ genRead.n < bytes
    /\ genOut[2] = Nil
    /\ Len(genOut[1]) = MaxGenBytes

\* C12: when the Read of the byte source returns an error, Generate returns
\* that same error.
C12_ErrorPassthrough ==
    (genCalls > 0 /\ genRead.err # Nil) => genOut[2] = genRead.err

\* the source filled the whole buffer and still reported an error
C12_Witness ==
    /\ genCalls > 0
    /\ bytes >= 1
    /\ genRead.n = bytes
    /\ genRead.err = ErrEOF
    /\ genOut[2] = ErrEOF

\* the budget New actually has: max(0, maxGenerateAttempts)
Budget(p) == IF maxGenerateAttempts[p] > 0 THEN maxGenerateAttempts[p] ELSE 0

\* C13: an invocation that returned ErrSessionCollision made exactly
\* max(0, maxGenerateAttempts) calls and every one of them answered the
\* collision.
C13_CollisionOnlyOnExhaustion ==
    \A p \in Procs :
        (pc[p] = "done" /\ ret[p][2] = ErrSessionCollision) =>
            /\ Len(hist[p]) = Budget(p)
            /\ \A j \in 1..Len(hist[p]) : hist[p][j] = ErrSessionCollision

C13_Witness ==
    \E p \in Procs :
        /\ pc[p] = "done"
        /\ ret[p] = <<EmptyBytes, ErrSessionCollision>>
        /\ maxGenerateAttempts[p] = 1
        /\ hist[p] = <<ErrSessionCollision>>

\* C14: an answer that wraps the collision without being the shared
\* ErrSessionCollision value is never retried: it is the last call of its
\* invocation and New returned the storer's answer unchanged, also when
\* attempts remained.
C14_CollisionByIdentity ==
    \A p \in Procs : \A j \in 1..Len(hist[p]) :
        hist[p][j] = ErrWrappedCollision =>
            /\ j = Len(hist[p])
            /\ pc[p] = "done"
            /\ ret[p] = answer[p]
            /\ ret[p][2] = ErrWrappedCollision

\* the wrapped collision came on the first of two allowed attempts
C14_Witness ==
    \E p \in Procs :
        /\ pc[p] = "done"
        /\ maxGenerateAttempts[p] = MaxAttempts
        /\ hist[p] = <<ErrWrappedCollision>>
        /\ Len(hist[p]) < maxGenerateAttempts[p]
        /\ ret[p][2] = ErrWrappedCollision

AllCollisions(h) == \A j \in 1..Len(h) : h[j] = ErrSessionCollision

\* C15: New does not look at its context. An invocation whose ctx is
\* cancelled returns the collision error only with its whole budget used on
\* collisions, and returns context.Canceled only as the unchanged answer of
\* the GenerateAndStore call it just made.
C15_CancellationLeftToStorer ==
    [][\A p \in Procs :
        (pc[p] = "loop" /\ pc'[p] = "done") =>
            /\ (cancelled[p] /\ ret'[p][2] = ErrSessionCollision) =>
                    /\ Len(hist'[p]) = Budget(p)
                    /\ AllCollisions(hist'[p])
                    /\ ret'[p][1] = EmptyBytes
            /\ ret'[p][2] = ErrCanceled =>
                    /\ Len(hist'[p]) = Len(hist[p]) + 1
                    /\ answer'[p][2] = ErrCanceled
                    /\ ret'[p] = answer'[p]
      ]_vars

\* the ctx was cancelled before the first call, the storer ignored it and
\* answered collisions until the budget was used up
C15_Witness ==
    \E p \in Procs :
        /\ pc[p] = "loop"
        /\ cancelled[p] /\ cancelAt[p] = 0
        /\ maxGenerateAttempts[p] = MaxAttempts
        /\ Len(hist[p]) = MaxAttempts
        /\ AllCollisions(hist[p])
        /\ i[p] = MaxAttempts

C17_PureDelegation ==
    \A p \in Procs :
        /\ recv[p] \subseteq {<<CallerCtx, userId[p], metaData[p]>>}
        /\ (pc[p] = "done" /\ ret[p][2] = Nil) =>
                /\ ret[p] = answer[p]
                /\ recv[p] # {}

\* success on a retry: both calls carried the same arguments
C17_Witness ==
    \E p \in Procs :
        /\ pc[p] = "done"
        /\ hist[p] = <<ErrSessionCollision, Nil>>
        /\ recv[p] = {<<CallerCtx, "u", "m">>}
        /\ ret[p] = answer[p]
        /\ ret[p][2] = Nil

====
